---- MODULE Spec2Model ----
(***************************************************************************)
(* A model of the PostgreSQL wire-protocol client in src/src/pgConnection. *)
(* The connection object, its net.Socket (listeners, frames written), the  *)
(* promises handed to callers and the closures of query() are the state;   *)
(* every caller operation, transport event and timer is one action.        *)
(*                                                                         *)
(* Buffers and strings are sequences of byte values (0..255).              *)
(* An optional value (null or v) is the sequence <<>> or <<v>>.            *)
(***************************************************************************)
EXTENDS Integers, Sequences, FiniteSets, TLC

\* ------------------------------------------------------------------ bounds

\* Frames in the stream handed to the framer (SpecFramer).
MaxFrames == 3
\* query() calls made by the caller on one connection.
MaxQueries == 2
\* DataRow messages the backend sends in answer to one query.
MaxRows == 1
\* Messages the backend sends before the first ReadyForQuery (startup phase).
MaxStartupMsgs == 2
\* query() calls made by the caller while the startup phase is explored.
MaxAuthQueries == 1
\* close() calls made by the caller on one connection.
MaxCloses == 1
\* query() calls made by the caller in a session without close (SpecQueries).
MaxSessionQueries == 3
\* Notices and parameter updates the backend sends in one session, query()
\* calls of that session, DataRows in one answer, and bytes the transport may hold back before the
\* backend waits (SpecResponse).
MaxNotices == 1
MaxResponseQueries == 1
MaxResponseRows == 2
MaxWire == 6
\* Characters of a SCRAM parameter string handed to parseSCRAMParams (SpecParams).
MaxParamsLen == 5
\* Bytes of an arbitrary stream handed to the framer (SpecResync).
MaxResyncBytes == 6
\* close() and query() calls made by a caller that closes repeatedly (SpecClose).
MaxCloseCalls == 3
MaxCloseQueries == 1
\* Messages the backend sends during a SCRAM exchange (SpecScram).
MaxScramMsgs == 4

\* --------------------------------------------------- constants.mjs (bytes)

AUTHENTICATION == 82
PARAMETER_STATUS == 83
BACKEND_KEY_DATA == 75
READY_FOR_QUERY == 90
ROW_DESCRIPTION == 84
DATA_ROW == 68
COMMAND_COMPLETE == 67
ERROR_RESPONSE == 69
NOTICE_RESPONSE == 78
NO_DATA == 110
EMPTY_QUERY_RESPONSE == 73
QUERY == 81
TERMINATE == 88
PASSWORD_MESSAGE == 112

AUTH_OK == 0
AUTH_CLEARTEXT_PASSWORD == 3
AUTH_MD5_PASSWORD == 5
AUTH_SASL == 10
AUTH_SASL_CONTINUE == 11
AUTH_SASL_FINAL == 12

\* ------------------------------------------------------------ Buffer reads

\* Buffer.writeInt32BE(n) for 0 <= n < 2^31: the four bytes, big-endian.
WriteInt32BE(n) ==
  << (n \div 16777216) % 256, (n \div 65536) % 256, (n \div 256) % 256, n % 256 >>

\* buf.readInt32BE(offset), offset counted from 0 as in the source: the first
\* byte carries the sign (two's complement).
ReadInt32BE(buf, offset) ==
  LET high == IF buf[offset + 1] >= 128 THEN buf[offset + 1] - 256 ELSE buf[offset + 1]
  IN high * 16777216 + buf[offset + 2] * 65536 + buf[offset + 3] * 256 + buf[offset + 4]

\* buf.slice(from) and buf.slice(from, to), offsets counted from 0, clamped.
SliceFrom(buf, from) ==
  IF from >= Len(buf) THEN <<>> ELSE SubSeq(buf, from + 1, Len(buf))

Slice(buf, from, to) ==
  LET e == IF to > Len(buf) THEN Len(buf) ELSE to
  IN IF from >= e THEN <<>> ELSE SubSeq(buf, from + 1, e)

\* ------------------------------------------------- strings (as byte values)

\* "SCRAM-SHA-256"
STR_SCRAM_SHA_256 == << 83, 67, 82, 65, 77, 45, 83, 72, 65, 45, 50, 53, 54 >>
\* "PLAIN": a mechanism this client does not support
STR_PLAIN == << 80, 76, 65, 73, 78 >>
\* "UNKNOWN", "EMPTY", "SELECT", "INSERT"
STR_UNKNOWN == << 85, 78, 75, 78, 79, 87, 78 >>
STR_EMPTY == << 69, 77, 80, 84, 89 >>
STR_SELECT == << 83, 69, 76, 69, 67, 84 >>
STR_INSERT == << 73, 78, 83, 69, 82, 84 >>

\* A JavaScript number that may be NaN, and the values null and undefined.
Num(n) == [tag |-> "number", v |-> n]
NaN == [tag |-> "NaN", v |-> 0]
JsNull == [tag |-> "null", v |-> 0]
JsUndefined == [tag |-> "undefined", v |-> 0]

\* s.toLowerCase() on ASCII.
ToLowerCase(s) == [i \in 1..Len(s) |-> IF s[i] >= 65 /\ s[i] <= 90 THEN s[i] + 32 ELSE s[i]]

\* s.startsWith(p)
StartsWith(s, p) == Len(s) >= Len(p) /\ SubSeq(s, 1, Len(p)) = p

\* s.split(sep) for a one-byte separator: the sequence of pieces.
RECURSIVE Split(_, _)
Split(s, sep) ==
  IF \A i \in 1..Len(s) : s[i] # sep THEN << s >>
  ELSE LET k == CHOOSE i \in 1..Len(s) :
                  s[i] = sep /\ \A j \in 1..(i - 1) : s[j] # sep
       IN << SubSeq(s, 1, k - 1) >> \o Split(SubSeq(s, k + 1, Len(s)), sep)

\* parseInt(s, 10): the longest prefix of decimal digits, NaN when there is none.
RECURSIVE DigitsValue(_, _)
DigitsValue(s, acc) ==
  IF s = <<>> \/ s[1] < 48 \/ s[1] > 57 THEN acc
  ELSE DigitsValue(Tail(s), acc * 10 + (s[1] - 48))

ParseInt(s) ==
  IF s = <<>> \/ s[1] < 48 \/ s[1] > 57 THEN NaN ELSE Num(DigitsValue(s, 0))

\* ------------------------------------------------------- messageParser.mjs

\* readCString(buffer, offset): bytes from offset up to a 0 byte or the end.
readCString(buffer, offset) ==
  LET stops == {e \in offset..Len(buffer) : e = Len(buffer) \/ buffer[e + 1] = 0}
      end == IF offset >= Len(buffer) THEN offset
             ELSE CHOOSE e \in stops : \A f \in stops : e <= f
  IN Slice(buffer, offset, end)

\* parseNullTerminatedPairs(buffer): the pairs <<key, value>> in message order
\* (a later pair with the same key overrides an earlier one in the object).
RECURSIVE PairsFrom(_, _)
PairsFrom(buffer, offset) ==
  IF ~(offset < Len(buffer) /\ buffer[offset + 1] # 0) THEN <<>>
  ELSE LET key == buffer[offset + 1]
           value == readCString(buffer, offset + 1)
       IN << << key, value >> >> \o PairsFrom(buffer, offset + 1 + Len(value) + 1)

parseNullTerminatedPairs(buffer) == PairsFrom(buffer, 0)

\* fields.M of a parsed pair list: the last value stored under key 'M' (77).
FieldM(fields) ==
  LET idx == {i \in 1..Len(fields) : fields[i][1] = 77}
  IN IF idx = {} THEN <<>>
     ELSE << fields[CHOOSE i \in idx : \A j \in idx : j <= i][2] >>

\* parseCommandComplete(message)
parseCommandComplete(message) ==
  LET commandTag == readCString(message, 0)
      parts == Split(commandTag, 32)
      isInsert == Len(parts) = 3 /\ ToLowerCase(parts[1]) = ToLowerCase(STR_INSERT)
      last == ParseInt(parts[Len(parts)])
  IN [ command |-> parts[1],
       rowCount |-> IF isInsert THEN ParseInt(parts[3])
                    ELSE IF Len(parts) >= 2
                         THEN (IF last.tag = "NaN" THEN Num(0) ELSE last)
                         ELSE Num(0),
       oid |-> IF isInsert THEN ParseInt(parts[2]) ELSE JsNull,
       commandTag |-> commandTag ]

\* message.readInt16BE(offset)
ReadInt16BE(buf, offset) ==
  LET u == buf[offset + 1] * 256 + buf[offset + 2]
  IN IF u >= 32768 THEN u - 65536 ELSE u

\* parseRowDescription(message): the field descriptors, in order.
RECURSIVE RowDescriptionFrom(_, _, _)
RowDescriptionFrom(message, offset, left) ==
  IF left <= 0 THEN <<>>
  ELSE LET name == readCString(message, offset)
           o == offset + Len(name) + 1
       IN IF o + 18 > Len(message) THEN <<>>
          ELSE << [ name |-> name,
                    tableOID |-> ReadInt32BE(message, o),
                    columnAttrNum |-> ReadInt16BE(message, o + 4),
                    dataTypeOID |-> ReadInt32BE(message, o + 6),
                    dataTypeSize |-> ReadInt16BE(message, o + 10),
                    typeModifier |-> ReadInt32BE(message, o + 12),
                    format |-> ReadInt16BE(message, o + 16) ] >>
               \o RowDescriptionFrom(message, o + 18, left - 1)

parseRowDescription(message) ==
  RowDescriptionFrom(message, 2, ReadInt16BE(message, 0))

\* parseDataRow(message, fields): the row as the sequence of <<name, value>>
\* assignments made, a value being <<>> for SQL NULL or <<bytes>>.
RECURSIVE DataRowFrom(_, _, _, _, _)
DataRowFrom(message, fields, offset, i, fieldCount) ==
  IF ~(i < fieldCount /\ i < Len(fields)) \/ offset + 4 > Len(message) THEN <<>>
  ELSE LET length == ReadInt32BE(message, offset)
           o == offset + 4
       IN IF length = -1
          THEN << << fields[i + 1].name, <<>> >> >>
               \o DataRowFrom(message, fields, o, i + 1, fieldCount)
          ELSE IF o + length > Len(message) THEN <<>>
          ELSE << << fields[i + 1].name, << Slice(message, o, o + length) >> >> >>
               \o DataRowFrom(message, fields, o + length, i + 1, fieldCount)

parseDataRow(message, fields) ==
  DataRowFrom(message, fields, 2, 0, ReadInt16BE(message, 0))

\* parseSCRAMParams(str): the pairs <<key, value>> kept, in order. JavaScript's
\* pair.split("=", 2) keeps only the first two pieces of the split.
parseSCRAMParams(str) ==
  LET pairs == Split(str, 44)
      kv(pair) == LET pieces == Split(pair, 61) IN
                    IF Len(pieces) >= 2 /\ pieces[1] # <<>>
                    THEN << << pieces[1], pieces[2] >> >> ELSE <<>>
      RECURSIVE Collect(_)
      Collect(i) == IF i > Len(pairs) THEN <<>> ELSE kv(pairs[i]) \o Collect(i + 1)
  IN Collect(1)

\* params[key] of a parsed SCRAM parameter list: <<>> when absent.
Param(params, key) ==
  LET idx == {i \in 1..Len(params) : params[i][1] = << key >>}
  IN IF idx = {} THEN <<>>
     ELSE << params[CHOOSE i \in idx : \A j \in idx : j <= i][2] >>

\* ------------------------------------------------------ connection config

\* config.user, config.database, config.password of the modelled connection
\* ("u", "d", "pw"), and the default encoding "utf8".
ConfigUser == << 117 >>
ConfigDatabase == << 100 >>
ConfigPassword == << 112, 119 >>
ConfigEncoding == << 117, 116, 102, 56 >>

\* ------------------------------------------------------- messageBuilder.mjs

\* createStartupPacket(config): no type byte; the length covers itself.
createStartupPacket ==
  LET kv(k, v) == k \o << 0 >> \o v \o << 0 >>
      body == WriteInt32BE(196608)
              \o kv(<< 117, 115, 101, 114 >>, ConfigUser)
              \o kv(<< 100, 97, 116, 97, 98, 97, 115, 101 >>, ConfigDatabase)
              \o kv(<< 99, 108, 105, 101, 110, 116, 95, 101, 110, 99, 111, 100, 105, 110, 103 >>,
                    ConfigEncoding)
              \o << 0 >>
  IN WriteInt32BE(Len(body) + 4) \o body

\* createSimpleQueryPacket(sql)
createSimpleQueryPacket(sql) ==
  << QUERY >> \o WriteInt32BE(4 + Len(sql) + 1) \o sql \o << 0 >>

\* createPasswordPacket(password, addNullTerminator)
createPasswordPacket(password, addNullTerminator) ==
  << PASSWORD_MESSAGE >>
  \o WriteInt32BE(4 + Len(password) + (IF addNullTerminator THEN 1 ELSE 0))
  \o password \o (IF addNullTerminator THEN << 0 >> ELSE <<>>)

\* createTerminationPacket()
createTerminationPacket == << TERMINATE, 0, 0, 0, 4 >>

\* createSASLInitialResponsePacket(mechanism, clientFirstMessage)
createSASLInitialResponsePacket(mechanism, clientFirstMessage) ==
  LET rest == mechanism \o << 0 >> \o WriteInt32BE(Len(clientFirstMessage))
              \o clientFirstMessage
  IN << PASSWORD_MESSAGE >> \o WriteInt32BE(4 + Len(rest)) \o rest

\* The kind of a frame the client wrote, read back from its first byte (the
\* Startup frame has no type byte and begins with its length).
IsQueryFrame(frame) == frame[1] = QUERY
IsStartupFrame(frame) == frame = createStartupPacket
IsTerminateFrame(frame) == frame = createTerminationPacket
IsPasswordFrame(frame) == frame[1] = PASSWORD_MESSAGE

\* ------------------------------------------------ the crypto provider (Node)
\* crypto is an external collaborator. Its digests are stood for by a one-byte
\* checksum of the inputs, so that equal inputs give equal digests and the
\* SCRAM exchange can be driven to both of its outcomes.

RECURSIVE ByteSum(_)
ByteSum(s) == IF s = <<>> THEN 0 ELSE (s[1] + 3 * ByteSum(Tail(s))) % 256

Sha256(data) == << (ByteSum(data) + 7) % 256 >>
HmacSha256(key, data) == << (ByteSum(key) * 5 + ByteSum(data) + 11) % 256 >>
Pbkdf2Sha256(password, salt, iterations) ==
  << (ByteSum(password) + ByteSum(salt) * 7 + iterations) % 256 >>

\* a ^ b on bytes.
RECURSIVE XorByte(_, _, _)
XorByte(a, b, bits) ==
  IF bits = 0 THEN 0
  ELSE ((a + b) % 2) + 2 * XorByte(a \div 2, b \div 2, bits - 1)

\* The base64 alphabet: value 0..63 to character, and back (-1: not a digit).
B64Char(v) ==
  IF v < 26 THEN 65 + v ELSE IF v < 52 THEN 97 + (v - 26)
  ELSE IF v < 62 THEN 48 + (v - 52) ELSE IF v = 62 THEN 43 ELSE 47

B64Value(c) ==
  IF c >= 65 /\ c <= 90 THEN c - 65 ELSE IF c >= 97 /\ c <= 122 THEN c - 97 + 26
  ELSE IF c >= 48 /\ c <= 57 THEN c - 48 + 52
  ELSE IF c = 43 THEN 62 ELSE IF c = 47 THEN 63 ELSE -1

\* buf.toString("base64")
RECURSIVE Base64Encode(_)
Base64Encode(b) ==
  IF b = <<>> THEN <<>>
  ELSE IF Len(b) = 1
  THEN << B64Char(b[1] \div 4), B64Char((b[1] % 4) * 16), 61, 61 >>
  ELSE IF Len(b) = 2
  THEN << B64Char(b[1] \div 4), B64Char((b[1] % 4) * 16 + b[2] \div 16),
          B64Char((b[2] % 16) * 4), 61 >>
  ELSE << B64Char(b[1] \div 4), B64Char((b[1] % 4) * 16 + b[2] \div 16),
          B64Char((b[2] % 16) * 4 + b[3] \div 64), B64Char(b[3] % 64) >>
       \o Base64Encode(SubSeq(b, 4, Len(b)))

\* Buffer.from(str, "base64"): lenient, stops at the first '=' and needs no
\* padding; a trailing group of one digit gives no byte.
RECURSIVE Base64DecodeValues(_)
Base64DecodeValues(v) ==
  IF Len(v) < 2 THEN <<>>
  ELSE IF Len(v) = 2 THEN << v[1] * 4 + v[2] \div 16 >>
  ELSE IF Len(v) = 3
  THEN << v[1] * 4 + v[2] \div 16, (v[2] % 16) * 16 + v[3] \div 4 >>
  ELSE << v[1] * 4 + v[2] \div 16, (v[2] % 16) * 16 + v[3] \div 4,
          (v[3] % 4) * 64 + v[4] >>
       \o Base64DecodeValues(SubSeq(v, 5, Len(v)))

Base64Decode(str) ==
  LET upto == IF \E i \in 1..Len(str) : str[i] = 61
              THEN (CHOOSE i \in 1..Len(str) :
                      str[i] = 61 /\ \A j \in 1..(i - 1) : str[j] # 61) - 1
              ELSE Len(str)
      digits == SelectSeq(SubSeq(str, 1, upto), LAMBDA c : B64Value(c) >= 0)
  IN Base64DecodeValues([i \in 1..Len(digits) |-> B64Value(digits[i])])

\* ------------------------------------------------------------ scramAuth.mjs

\* The values crypto.randomBytes may return for the client nonce (the source
\* draws 18 bytes; three keep the same padding-free base64 shape).
RandomBytes == { << 1, 2, 3 >>, << 200, 100, 50 >> }

\* saslName(name): '=' becomes "=3D" and ',' becomes "=2C".
RECURSIVE saslName(_)
saslName(name) ==
  IF name = <<>> THEN <<>>
  ELSE (IF name[1] = 61 THEN << 61, 51, 68 >>
        ELSE IF name[1] = 44 THEN << 61, 50, 67 >> ELSE << name[1] >>)
       \o saslName(Tail(name))

\* normalizePassword(password): NFKC leaves ASCII unchanged.
normalizePassword(password) == password

\* The SCRAM state the constructor builds.
ScramInit ==
  [ clientNonce |-> <<>>, serverNonce |-> <<>>, salt |-> <<>>, iterations |-> Num(0),
    clientFirstMessage |-> <<>>, clientFirstMessageBare |-> <<>>,
    clientFinalMessage |-> <<>>, clientFinalMessageWithoutProof |-> <<>>,
    serverFirstMessage |-> <<>>, serverFinalMessage |-> <<>>,
    saltedPassword |-> <<>>, authMessage |-> <<>> ]

\* startSCRAMSHA256(scramState, user), random being the bytes drawn.
startSCRAMSHA256(scramState, user, random) ==
  LET clientNonce == Base64Encode(random)
      clientFirstMessageBare == << 110, 61 >> \o saslName(user) \o << 44, 114, 61 >> \o clientNonce
  IN [ scramState EXCEPT
         !.clientNonce = << clientNonce >>,
         !.clientFirstMessageBare = << clientFirstMessageBare >>,
         !.clientFirstMessage = << << 110, 44, 44 >> \o clientFirstMessageBare >> ]

\* String(x) of an optional string: null reads "null".
StringOf(opt) == IF opt = <<>> THEN << 110, 117, 108, 108 >> ELSE opt[1]

\* An optional string is falsy when it is absent or empty.
Falsy(opt) == opt = <<>> \/ opt[1] = <<>>

\* The ServerSignature this client expects for its SCRAM state.
ExpectedServerSignature(scramState) ==
  HmacSha256(HmacSha256(scramState.saltedPassword[1],
                        << 83, 101, 114, 118, 101, 114, 32, 75, 101, 121 >>),
             scramState.authMessage[1])

\* processSASLContinue(scramState, message, password): the state (which the
\* source mutates in place), the error ("" for null) and whether a crypto call
\* threw instead of returning.
processSASLContinue(scramState, message, password) ==
  LET s0 == [scramState EXCEPT !.serverFirstMessage = << message >>]
      params == parseSCRAMParams(message)
      r == Param(params, 114)
      s == Param(params, 115)
      i == Param(params, 105)
  IN IF Falsy(r) \/ ~StartsWith(r[1], StringOf(s0.clientNonce))
     THEN [state |-> s0, error |-> "Server nonce does not start with client nonce",
           threw |-> FALSE]
     ELSE IF Falsy(s) \/ Falsy(i)
     THEN [state |-> s0, error |-> "Server first message missing salt or iteration count",
           threw |-> FALSE]
     ELSE
       LET iterations == ParseInt(i[1])
           s1 == [s0 EXCEPT !.serverNonce = r, !.salt = << Base64Decode(s[1]) >>,
                            !.iterations = iterations]
       IN IF iterations.tag = "NaN" \/ iterations.v < 1
          THEN \* crypto.pbkdf2Sync rejects the iteration count
               [state |-> s1, error |-> "", threw |-> TRUE]
          ELSE
            LET saltedPassword == Pbkdf2Sha256(normalizePassword(password),
                                               s1.salt[1], iterations.v)
                clientKey == HmacSha256(saltedPassword,
                                        << 67, 108, 105, 101, 110, 116, 32, 75, 101, 121 >>)
                storedKey == Sha256(clientKey)
                withoutProof == << 99, 61, 98, 105, 119, 115, 44, 114, 61 >> \o r[1]
                bare == IF s1.clientFirstMessageBare = <<>> THEN <<>>
                        ELSE s1.clientFirstMessageBare[1]
                authMessage == bare \o << 44 >> \o message \o << 44 >> \o withoutProof
                clientSignature == HmacSha256(storedKey, authMessage)
                clientProof == [k \in 1..Len(clientKey) |->
                                  XorByte(clientKey[k], clientSignature[k], 8)]
            IN [ state |-> [s1 EXCEPT
                   !.saltedPassword = << saltedPassword >>,
                   !.clientFinalMessageWithoutProof = << withoutProof >>,
                   !.authMessage = << authMessage >>,
                   !.clientFinalMessage =
                      << withoutProof \o << 44, 112, 61 >> \o Base64Encode(clientProof) >> ],
                 error |-> "", threw |-> FALSE ]

\* processSASLFinal(scramState, message): as above; the state keeps the
\* serverFinalMessage the source stores before it checks anything.
processSASLFinal(scramState, message) ==
  LET s0 == [scramState EXCEPT !.serverFinalMessage = << message >>]
      v == Param(parseSCRAMParams(message), 118)
  IN IF StartsWith(message, << 101, 61 >>)
     THEN [state |-> s0, error |-> "SCRAM authentication failed", threw |-> FALSE]
     ELSE IF Falsy(v)
     THEN [state |-> s0, error |-> "Server final message missing signature (v)",
           threw |-> FALSE]
     ELSE IF s0.saltedPassword = <<>> \/ s0.authMessage = <<>>
     THEN \* crypto.createHmac(..., null) throws
          [state |-> s0, error |-> "", threw |-> TRUE]
     ELSE IF Base64Decode(v[1]) # ExpectedServerSignature(s0)
     THEN [state |-> s0, error |-> "Server signature verification failed", threw |-> FALSE]
     ELSE [state |-> s0, error |-> "", threw |-> FALSE]

\* -------------------------------------------------------------- the state

VARIABLES
  this,            \* the PostgreSQLConnection object's fields
  socket,          \* its net.Socket: transport status, listeners, frames written
  connectPromise,  \* the promise connect() returned
  queries,         \* one closure per query() call: promise, accumulators, timer,
                   \* and how many messages had been dispatched at the call
  closePromises,   \* the promises close() returned
  server,          \* the backend at the other end of the transport
  caller,          \* the calls the caller may make, and what it knew at each query()
  wire,            \* bytes the transport has still to deliver (SpecFramer)
  sent,            \* the frames those bytes were built from (SpecFramer)
  dispatched,      \* the messages handed to _processMessage (SpecFramer)
  crashed          \* an exception escaped a transport callback

vars == << this, socket, connectPromise, queries, closePromises, server, caller, wire,
           sent, dispatched, crashed >>

\* The state a handler works on, and the state after it.
World ==
  [ this |-> this, socket |-> socket, connectPromise |-> connectPromise,
    queries |-> queries, closePromises |-> closePromises,
    dispatched |-> dispatched, crashed |-> crashed ]

Commit(w) ==
  /\ this' = w.this
  /\ socket' = w.socket
  /\ connectPromise' = w.connectPromise
  /\ queries' = w.queries
  /\ closePromises' = w.closePromises
  /\ crashed' = w.crashed

\* new Error(message), with the fields an ErrorResponse carries.
Error(message, fields) == [message |-> message, fields |-> fields]

\* list.filter(x => x !== id)
Without(list, id) == SelectSeq(list, LAMBDA x : x # id)

\* A promise settles once: resolve and reject of a settled promise do nothing.
ResolveQuery(w, q, data) ==
  IF w.queries[q].promise # "pending" THEN w
  ELSE [w EXCEPT !.queries[q].promise = "resolved", !.queries[q].value = << data >>]

RejectQuery(w, q, error) ==
  IF w.queries[q].promise # "pending" THEN w
  ELSE [w EXCEPT !.queries[q].promise = "rejected", !.queries[q].value = << error >>]

ResolveConnect(w) ==
  IF w.connectPromise.status # "pending" THEN w
  ELSE [w EXCEPT !.connectPromise.status = "resolved"]

RejectConnect(w, error) ==
  IF w.connectPromise.status # "pending" THEN w
  ELSE [w EXCEPT !.connectPromise = [status |-> "rejected", error |-> << error >>]]

\* A socket that still sends what is written after end().
SocketWrite_AfterEnd(w, frame) ==
  IF w.socket.status \in { "connecting", "open" }
  THEN [w EXCEPT !.socket.written = Append(@, frame)]
  ELSE w

\* socket.write(frame): queued while the socket connects, sent while it is
\* open; a socket that was ended or destroyed sends nothing more.
SocketWrite(w, frame) ==
  IF w.socket.status \in { "connecting", "open" } /\ w.socket.endedAt = <<>>
  THEN [w EXCEPT !.socket.written = Append(@, frame)]
  ELSE w

\* An exception thrown inside a transport callback is caught by nobody.
Throw(w) == [w EXCEPT !.crashed = TRUE]

\* ------------------------------------------- pgConnection.mjs: query closures

\* currentQuery.resolve(data) of the closure cq that built the object.
currentQueryResolve(w, cq, data) ==
  ResolveQuery([w EXCEPT !.this.currentQuery = 0], cq, data)

\* currentQuery.reject(error) of the closure cq that built the object.
currentQueryReject(w, cq, error) ==
  RejectQuery([w EXCEPT !.this.currentQuery = 0, !.this.readyForQuery = TRUE], cq, error)

\* cleanup() of closure q.
cleanup(w, q) ==
  [w EXCEPT !.queries[q].timeout = IF @ = "armed" THEN "cleared" ELSE @,
            !.socket.listeners.readyForQuery = Without(@, q),
            !.socket.listeners.error = Without(@, q),
            !.this.currentQuery = 0]

\* A result that takes no account of the status byte.
QueryResult_StatusIgnored(closure, status) ==
  LET parsedCommand ==
        IF closure.commandCompleteMessage # <<>>
        THEN parseCommandComplete(closure.commandCompleteMessage[1])
        ELSE [command |-> STR_UNKNOWN, rowCount |-> Num(0), commandTag |-> <<>>,
              oid |-> JsUndefined]
  IN [ rows |-> closure.results, fields |-> closure.fields,
       command |-> parsedCommand.command, rowCount |-> parsedCommand.rowCount,
       commandTag |-> parsedCommand.commandTag, oid |-> parsedCommand.oid ]

\* The result onReadyForQuery of closure q builds from its accumulators.
QueryResult(closure, status) ==
  LET parsedCommand ==
        IF closure.commandCompleteMessage # <<>>
        THEN parseCommandComplete(closure.commandCompleteMessage[1])
        ELSE IF status = << 73 >>
        THEN [command |-> STR_EMPTY, rowCount |-> Num(0), commandTag |-> STR_EMPTY,
              oid |-> JsUndefined]
        ELSE [command |-> STR_UNKNOWN, rowCount |-> Num(0), commandTag |-> <<>>,
              oid |-> JsUndefined]
  IN [ rows |-> closure.results, fields |-> closure.fields,
       command |-> parsedCommand.command, rowCount |-> parsedCommand.rowCount,
       commandTag |-> parsedCommand.commandTag, oid |-> parsedCommand.oid ]

\* onReadyForQuery(status) of closure q.
queryOnReadyForQuery(w, q, status) ==
  IF w.this.currentQuery = 0 THEN cleanup(w, q)
  ELSE currentQueryResolve(cleanup(w, q), w.this.currentQuery,
                           QueryResult(w.queries[q], status))

\* onError(error) of closure q.
queryOnError(w, q, error) == RejectQuery(cleanup(w, q), q, error)

\* The handlers object of the current query, applied to one response message.
_handleQueryResponse(w, messageType, message) ==
  LET cq == w.this.currentQuery IN
  IF cq = 0 THEN w
  ELSE IF messageType = ROW_DESCRIPTION
  THEN IF Len(message) < 2 THEN Throw(w)
       ELSE [w EXCEPT !.queries[cq].fields = << parseRowDescription(message) >>]
  ELSE IF messageType = DATA_ROW
  THEN IF Len(message) < 2 \/ w.queries[cq].fields = <<>> THEN Throw(w)
       ELSE [w EXCEPT !.queries[cq].results =
                         Append(@, parseDataRow(message, w.queries[cq].fields[1]))]
  ELSE IF messageType = COMMAND_COMPLETE
  THEN [w EXCEPT !.queries[cq].commandCompleteMessage = << message >>]
  ELSE IF messageType = EMPTY_QUERY_RESPONSE
  THEN [w EXCEPT !.queries[cq].commandCompleteMessage = << STR_EMPTY \o << 0 >> >>]
  ELSE w

\* ---------------------------------------------- pgConnection.mjs: connect()

\* onReadyForQuery(status) of connect().
connectOnReadyForQuery(w) ==
  ResolveConnect([w EXCEPT !.this.readyForQuery = TRUE,
                           !.socket.listeners.authenticationError = Without(@, 0)])

\* onAuthError(error) of connect().
connectOnAuthError(w, error) ==
  RejectConnect([w EXCEPT !.socket.listeners.readyForQuery = Without(@, 0)], error)

\* The 'error' listener connect() installs: the state it sets makes its own
\* test true, so it always rejects.
socketOnError(w, error) ==
  LET w1 == [w EXCEPT !.this.state = "error"]
  IN IF w1.this.state # "connected" THEN RejectConnect(w1, error) ELSE w1

\* ------------------------------------------------------ EventEmitter.emit
\* emit calls a copy of the listener list, in registration order; a once
\* listener removes itself before it runs. Listener 0 is connect()'s, listener
\* q >= 1 is that of the q-th query() call.

RECURSIVE CallReadyForQuery(_, _, _)
CallReadyForQuery(w, ids, status) ==
  IF ids = <<>> THEN w
  ELSE LET w1 == [w EXCEPT !.socket.listeners.readyForQuery = Without(@, ids[1])]
           w2 == IF ids[1] = 0 THEN connectOnReadyForQuery(w1)
                 ELSE queryOnReadyForQuery(w1, ids[1], status)
       IN CallReadyForQuery(w2, Tail(ids), status)

EmitReadyForQuery(w, status) ==
  CallReadyForQuery(w, w.socket.listeners.readyForQuery, status)

RECURSIVE CallError(_, _, _)
CallError(w, ids, error) ==
  IF ids = <<>> THEN w
  ELSE LET w1 == IF ids[1] = 0 THEN socketOnError(w, error)
                 ELSE queryOnError([w EXCEPT !.socket.listeners.error = Without(@, ids[1])],
                                   ids[1], error)
       IN CallError(w1, Tail(ids), error)

EmitError(w, error) == CallError(w, w.socket.listeners.error, error)

EmitAuthenticationError(w, error) ==
  IF w.socket.listeners.authenticationError = <<>> THEN w
  ELSE connectOnAuthError([w EXCEPT !.socket.listeners.authenticationError = <<>>], error)

\* ------------------------------------- pgConnection.mjs: protocol handlers

\* Lowercase hex of a byte string, and the md5 hex digest (a crypto stand-in).
HexDigit(v) == IF v < 10 THEN 48 + v ELSE 97 + (v - 10)

RECURSIVE ToHex(_)
ToHex(b) ==
  IF b = <<>> THEN <<>>
  ELSE << HexDigit(b[1] \div 16), HexDigit(b[1] % 16) >> \o ToHex(Tail(b))

Md5Hex(data) == ToHex(<< (ByteSum(data) + 13) % 256 >>)

\* _handleMD5Authentication(message)
_handleMD5Authentication(w, message) ==
  LET salt == Slice(message, 0, 4)
      firstHash == Md5Hex(ConfigPassword \o ConfigUser)
      secondHash == Md5Hex(firstHash \o ToHex(salt))
  IN SocketWrite(w, createPasswordPacket(<< 109, 100, 53 >> \o secondHash, TRUE))

\* The mechanism names of an AuthenticationSASL body.
RECURSIVE MechanismsFrom(_, _)
MechanismsFrom(message, offset) ==
  IF ~(offset < Len(message) /\ message[offset + 1] # 0) THEN <<>>
  ELSE LET mechanism == readCString(message, offset)
       IN << mechanism >> \o MechanismsFrom(message, offset + Len(mechanism) + 1)

\* _handleSASLAuthentication(message) starting SCRAM whatever is offered.
handleSASLAuthentication_AnyMechanism(w, message, random) ==
  LET scram == startSCRAMSHA256(w.this.scram, ConfigUser, random)
  IN SocketWrite([w EXCEPT !.this.scram = scram],
                 createSASLInitialResponsePacket(STR_SCRAM_SHA_256,
                                                 scram.clientFirstMessage[1]))

\* _handleSASLAuthentication(message), random being what randomBytes returns.
_handleSASLAuthentication(w, message, random) ==
  LET mechanisms == MechanismsFrom(message, 0) IN
  IF \E k \in 1..Len(mechanisms) : mechanisms[k] = STR_SCRAM_SHA_256
  THEN LET scram == startSCRAMSHA256(w.this.scram, ConfigUser, random)
       IN SocketWrite([w EXCEPT !.this.scram = scram],
                      createSASLInitialResponsePacket(STR_SCRAM_SHA_256,
                                                      scram.clientFirstMessage[1]))
  ELSE EmitAuthenticationError(w, Error("No supported SASL mechanism", <<>>))

\* _handleSASLContinue(message)
_handleSASLContinue(w, message) ==
  LET res == processSASLContinue(w.this.scram, message, ConfigPassword)
      w1 == [w EXCEPT !.this.scram = res.state]
  IN IF res.threw THEN Throw(w1)
     ELSE IF res.error # "" THEN EmitAuthenticationError(w1, Error(res.error, <<>>))
     ELSE SocketWrite(w1, createPasswordPacket(res.state.clientFinalMessage[1], FALSE))

\* _handleSASLFinal(message)
_handleSASLFinal(w, message) ==
  LET res == processSASLFinal(w.this.scram, message)
      w1 == [w EXCEPT !.this.scram = res.state]
  IN IF res.threw THEN Throw(w1)
     ELSE IF res.error # "" THEN EmitAuthenticationError(w1, Error(res.error, <<>>))
     ELSE w1

\* _handleAuthenticationMessage(message); "authenticated" has no listener.
_handleAuthenticationMessage(w, message, random) ==
  IF Len(message) < 4 THEN w
  ELSE LET authType == ReadInt32BE(message, 0)
           authData == SliceFrom(message, 4)
       IN IF authType = AUTH_OK THEN w
          ELSE IF authType = AUTH_CLEARTEXT_PASSWORD
          THEN SocketWrite(w, createPasswordPacket(ConfigPassword, TRUE))
          ELSE IF authType = AUTH_MD5_PASSWORD THEN _handleMD5Authentication(w, authData)
          ELSE IF authType = AUTH_SASL THEN _handleSASLAuthentication(w, authData, random)
          ELSE IF authType = AUTH_SASL_CONTINUE THEN _handleSASLContinue(w, authData)
          ELSE IF authType = AUTH_SASL_FINAL THEN _handleSASLFinal(w, authData)
          ELSE EmitAuthenticationError(w, Error("Unsupported authentication type", <<>>))

\* _handleBackendKeyData(message) resolving connect() as soon as the key arrives.
handleBackendKeyData_ResolvesConnect(w, message) ==
  ResolveConnect(IF Len(message) >= 8
                 THEN [w EXCEPT !.this.processId = ReadInt32BE(message, 0),
                                !.this.secretKey = ReadInt32BE(message, 4)]
                 ELSE w)

\* _handleBackendKeyData(message)
_handleBackendKeyData(w, message) ==
  IF Len(message) >= 8
  THEN [w EXCEPT !.this.processId = ReadInt32BE(message, 0),
                 !.this.secretKey = ReadInt32BE(message, 4)]
  ELSE w

\* _handleReadyForQuery(message)
_handleReadyForQuery(w, message) ==
  EmitReadyForQuery([w EXCEPT !.this.readyForQuery = TRUE], Slice(message, 0, 1))

\* _handleErrorResponse(message). The error's message text is fields.M (or
\* "PostgreSQL error"); it is carried in `fields`, and the message of every
\* such error is written "ErrorResponse".
_handleErrorResponse(w, message) ==
  LET error == Error("ErrorResponse", parseNullTerminatedPairs(message)) IN
  IF w.this.currentQuery # 0
  THEN [currentQueryReject(w, w.this.currentQuery, error) EXCEPT !.this.currentQuery = 0]
  ELSE EmitError(EmitAuthenticationError(w, error), error)

\* A notice handler that fails the query in flight.
handleNoticeResponse_RejectsQuery(w, message) ==
  IF w.this.currentQuery # 0
  THEN currentQueryReject(w, w.this.currentQuery, Error("notice", <<>>))
  ELSE w

\* _handleNoticeResponse(message), _handleParameterStatus(message): both only
\* parse and log.
_handleNoticeResponse(w, message) == w

_handleParameterStatus(w, message) == w

\* _processMessage(message)
_processMessage(w, message, random) ==
  IF Len(message) < 5 THEN w
  ELSE LET messageType == message[1]
           messageBody == SliceFrom(message, 5)
       IN IF messageType = AUTHENTICATION
          THEN _handleAuthenticationMessage(w, messageBody, random)
          ELSE IF messageType = BACKEND_KEY_DATA THEN _handleBackendKeyData(w, messageBody)
          ELSE IF messageType = READY_FOR_QUERY THEN _handleReadyForQuery(w, messageBody)
          ELSE IF messageType = ERROR_RESPONSE THEN _handleErrorResponse(w, messageBody)
          ELSE IF messageType = NOTICE_RESPONSE THEN _handleNoticeResponse(w, messageBody)
          ELSE IF messageType = PARAMETER_STATUS THEN _handleParameterStatus(w, messageBody)
          ELSE IF messageType \in { ROW_DESCRIPTION, DATA_ROW, COMMAND_COMPLETE,
                                    EMPTY_QUERY_RESPONSE, NO_DATA }
          THEN (IF w.this.currentQuery # 0
                THEN _handleQueryResponse(w, messageType, messageBody) ELSE w)
          ELSE w

\* The framing loop dropping two bytes where the length is below 4.
RECURSIVE processIncomingData_DropsTwo(_, _)
processIncomingData_DropsTwo(w, random) ==
  IF w.crashed \/ Len(w.this.buffer) < 5 THEN w
  ELSE LET length == ReadInt32BE(w.this.buffer, 1)
           totalMessageLength == length + 1
       IN IF length < 4
          THEN processIncomingData_DropsTwo([w EXCEPT !.this.buffer = SliceFrom(@, 2)], random)
          ELSE IF Len(w.this.buffer) < totalMessageLength THEN w
          ELSE LET message == Slice(w.this.buffer, 0, totalMessageLength)
                   w1 == [w EXCEPT !.this.buffer = SliceFrom(@, totalMessageLength),
                                   !.dispatched = Append(@, message)]
               IN processIncomingData_DropsTwo(_processMessage(w1, message, random), random)

\* The framing loop waiting for one byte more than the frame needs.
RECURSIVE processIncomingData_WaitsOneMore(_, _)
processIncomingData_WaitsOneMore(w, random) ==
  IF w.crashed \/ Len(w.this.buffer) < 5 THEN w
  ELSE LET length == ReadInt32BE(w.this.buffer, 1)
           totalMessageLength == length + 1
       IN IF length < 4
          THEN processIncomingData_WaitsOneMore([w EXCEPT !.this.buffer = SliceFrom(@, 1)],
                                                random)
          ELSE IF Len(w.this.buffer) <= totalMessageLength THEN w
          ELSE LET message == Slice(w.this.buffer, 0, totalMessageLength)
                   w1 == [w EXCEPT !.this.buffer = SliceFrom(@, totalMessageLength),
                                   !.dispatched = Append(@, message)]
               IN processIncomingData_WaitsOneMore(_processMessage(w1, message, random),
                                                   random)

\* The framing loop slicing a frame without waiting for all of its bytes.
RECURSIVE processIncomingData_NoWait(_, _)
processIncomingData_NoWait(w, random) ==
  IF w.crashed \/ Len(w.this.buffer) < 5 THEN w
  ELSE LET length == ReadInt32BE(w.this.buffer, 1)
           totalMessageLength == length + 1
       IN IF length < 4
          THEN processIncomingData_NoWait([w EXCEPT !.this.buffer = SliceFrom(@, 1)], random)
          ELSE LET message == Slice(w.this.buffer, 0, totalMessageLength)
                   w1 == [w EXCEPT !.this.buffer = SliceFrom(@, totalMessageLength),
                                   !.dispatched = Append(@, message)]
               IN processIncomingData_NoWait(_processMessage(w1, message, random), random)

\* _processIncomingData(): the framing loop. Each message about to be handed
\* to _processMessage is also appended to the record `dispatched`.
RECURSIVE _processIncomingData(_, _)
_processIncomingData(w, random) ==
  IF w.crashed \/ Len(w.this.buffer) < 5 THEN w
  ELSE LET length == ReadInt32BE(w.this.buffer, 1)
           totalMessageLength == length + 1
       IN IF length < 4
          THEN _processIncomingData([w EXCEPT !.this.buffer = SliceFrom(@, 1)], random)
          ELSE IF Len(w.this.buffer) < totalMessageLength THEN w
          ELSE LET message == Slice(w.this.buffer, 0, totalMessageLength)
                   w1 == [w EXCEPT !.this.buffer = SliceFrom(@, totalMessageLength),
                                   !.dispatched = Append(@, message)]
               IN _processIncomingData(_processMessage(w1, message, random), random)

\* The socket's 'data' listener.
socketOnData(w, data, random) ==
  _processIncomingData([w EXCEPT !.this.buffer = @ \o data], random)

\* ------------------------------------------------------------- the backend
\* The peer is a PostgreSQL backend. Until it has sent its first
\* ReadyForQuery it may send any startup-phase message in any order; after
\* that it answers the Query frames it was sent, one at a time and in order:
\* [RowDescription DataRow*] (CommandComplete | EmptyQueryResponse) or an
\* ErrorResponse, then ReadyForQuery. Notices and parameter updates may come
\* at any time. A fatal ErrorResponse may come while it is idle; the backend
\* sends nothing after it. A backend of profile "trust" sends the startup of
\* trust authentication (AuthenticationOk, BackendKeyData, ReadyForQuery) or
\* a fatal error; a backend of profile "any" is not held to any order.

\* A backend frame: type byte, int32 length (itself included), body.
Frame(type, body) == << type >> \o WriteInt32BE(Len(body) + 4) \o body

QueryFrames(written) == SelectSeq(written, IsQueryFrame)

\* The SQL text of a Query frame.
FrameSql(frame) == Slice(frame, 5, Len(frame) - 1)

AuthFrame(subtype, data) == Frame(AUTHENTICATION, WriteInt32BE(subtype) \o data)

\* The server-first message for the nonce the client last sent ("n0" when it
\* sent none): salt "s", 2 iterations.
ServerFirst(scram) ==
  << 114, 61 >> \o (IF scram.clientNonce = <<>> THEN << 110, 48 >> ELSE scram.clientNonce[1])
  \o << 120 >> \o << 44, 115, 61 >> \o Base64Encode(<< 115 >>) \o << 44, 105, 61, 50 >>

\* A server-first message whose nonce does not extend the client's.
ServerFirstBadNonce == << 114, 61, 122, 122, 44, 115, 61, 99, 119, 44, 105, 61, 50 >>

\* The server-final message carrying the signature the client expects, and one
\* carrying another signature.
ServerFinal(scram) ==
  << 118, 61 >> \o Base64Encode(ExpectedServerSignature(scram))

ServerFinalBadSignature == << 118, 61, 65, 65, 65, 65 >>

\* Server-first messages of every shape: well-formed, well-formed with
\* another nonce suffix, salt ("t") and iteration count (3), with a foreign
\* nonce, with a nonce that begins "null", and with r, s or i left out.
ServerFirsts(scram) ==
  LET nonce == IF scram.clientNonce = <<>> THEN << 110, 48 >> ELSE scram.clientNonce[1]
      r == << 114, 61 >> \o nonce \o << 120 >>
      salt == << 115, 61 >> \o Base64Encode(<< 115 >>)
      i == << 105, 61, 50 >>
  IN { ServerFirst(scram), ServerFirstBadNonce,
       << 114, 61 >> \o nonce \o << 121, 44, 115, 61 >> \o Base64Encode(<< 116 >>)
         \o << 44, 105, 61, 51 >>,
       << 114, 61, 110, 117, 108, 108, 122 >> \o << 44 >> \o salt \o << 44 >> \o i,
       salt \o << 44 >> \o i,
       r \o << 44 >> \o i,
       r \o << 44 >> \o salt }

\* Server-final messages: a foreign signature, an error, no signature, and
\* the expected signature once the client can compute it.
ServerFinals(scram) ==
  { ServerFinalBadSignature, << 101, 61, 120 >>, << 120, 61, 49 >> }
  \cup (IF scram.saltedPassword # <<>> /\ scram.authMessage # <<>>
        THEN { ServerFinal(scram) } ELSE {})

\* What a backend running a SCRAM exchange may send, in any order.
ScramFrames(scram) ==
  { AuthFrame(AUTH_OK, <<>>),
    AuthFrame(AUTH_SASL, STR_SCRAM_SHA_256 \o << 0, 0 >>),
    AuthFrame(AUTH_SASL, STR_PLAIN \o << 0 >> \o STR_SCRAM_SHA_256 \o << 0, 0 >>),
    AuthFrame(AUTH_SASL, STR_PLAIN \o << 0, 0 >>),
    AuthFrame(7, <<>>),
    Frame(READY_FOR_QUERY, << 73 >>) }
  \cup { AuthFrame(AUTH_SASL_CONTINUE, m) : m \in ServerFirsts(scram) }
  \cup { AuthFrame(AUTH_SASL_FINAL, m) : m \in ServerFinals(scram) }

\* What the backend may send before its first ReadyForQuery.
StartupFrames(scram) ==
  { AuthFrame(AUTH_OK, <<>>),
    AuthFrame(AUTH_CLEARTEXT_PASSWORD, <<>>),
    AuthFrame(AUTH_MD5_PASSWORD, << 1, 2, 3, 4 >>),
    AuthFrame(AUTH_SASL, STR_SCRAM_SHA_256 \o << 0, 0 >>),
    AuthFrame(AUTH_SASL, STR_PLAIN \o << 0, 0 >>),
    AuthFrame(AUTH_SASL_CONTINUE, ServerFirst(scram)),
    AuthFrame(AUTH_SASL_CONTINUE, ServerFirstBadNonce),
    AuthFrame(AUTH_SASL_FINAL, ServerFinalBadSignature),
    AuthFrame(7, <<>>),
    Frame(BACKEND_KEY_DATA, WriteInt32BE(1) \o WriteInt32BE(2)),
    Frame(ERROR_RESPONSE, << 77, 101, 0, 0 >>) }
  \cup (IF scram.saltedPassword # <<>> /\ scram.authMessage # <<>>
        THEN { AuthFrame(AUTH_SASL_FINAL, ServerFinal(scram)) } ELSE {})

\* Messages that may come at any time and leave every state alone.
AsyncFrames ==
  { Frame(NOTICE_RESPONSE, << 77, 110, 0, 0 >>),
    Frame(PARAMETER_STATUS, << 97, 0, 98, 0 >>) }

\* The answer to the query with text sql: one column named "c" + sql, row k
\* holding sql + digit k, the tag "INSERT <sql> <rows>", the error message sql.
RowDescriptionFor(sql) ==
  Frame(ROW_DESCRIPTION,
        << 0, 1 >> \o << 99 >> \o sql \o << 0 >>
        \o WriteInt32BE(0) \o << 0, 0 >> \o WriteInt32BE(25) \o << 255, 255 >>
        \o << 255, 255, 255, 255 >> \o << 0, 0 >>)

DataRowFor(sql, k) ==
  Frame(DATA_ROW, << 0, 1 >> \o WriteInt32BE(Len(sql) + 1) \o sql \o << 48 + k >>)

CommandCompleteFor(sql, rows) ==
  Frame(COMMAND_COMPLETE, STR_INSERT \o << 32 >> \o sql \o << 32, 48 + rows, 0 >>)

ErrorResponseFor(sql) == Frame(ERROR_RESPONSE, << 77 >> \o sql \o << 0, 0 >>)

\* The backend's next frame and its state after sending it.
ServerChoices ==
  LET asked == QueryFrames(socket.written)
      pending == Len(asked) > server.answered
      sql == FrameSql(asked[server.answered + 1])
      to(stage) == [server EXCEPT !.stage = stage]
      failed == [server EXCEPT !.phase = "failed"]
      fatal == Frame(ERROR_RESPONSE, << 77, 101, 0, 0 >>)
      ready == { [frame |-> Frame(READY_FOR_QUERY, << st >>),
                  server |-> [server EXCEPT !.phase = "serving", !.stage = "idle",
                                            !.rows = 0,
                                            !.lastReady = << Len(socket.written) >>,
                                            !.answered = IF server.stage = "done"
                                                         THEN @ + 1 ELSE @]]
                 : st \in { 73, 84 } }
  IN IF server.phase = "failed" THEN {}
     ELSE IF server.phase = "startup" /\ server.profile = "trust"
     THEN \* AuthenticationOk, BackendKeyData, ReadyForQuery, or a fatal error
          { [frame |-> f, server |-> server] : f \in AsyncFrames }
          \cup { [frame |-> fatal, server |-> failed] }
          \cup (IF server.stage = "auth"
                THEN { [frame |-> AuthFrame(AUTH_OK, <<>>), server |-> to("key")] }
                ELSE IF server.stage = "key"
                THEN { [frame |-> Frame(BACKEND_KEY_DATA, WriteInt32BE(1) \o WriteInt32BE(2)),
                        server |-> to("ready")] }
                ELSE ready)
     ELSE IF server.profile = "scram"
     THEN \* any message of a SCRAM exchange, in any order
          IF server.startupMsgs < MaxScramMsgs
          THEN { [frame |-> f,
                  server |-> [server EXCEPT
                                !.startupMsgs = @ + 1, !.last = f,
                                !.okSent = @ \/ f = AuthFrame(AUTH_OK, <<>>),
                                !.finalSent =
                                   @ \/ /\ this.scram.saltedPassword # <<>>
                                        /\ this.scram.authMessage # <<>>
                                        /\ f = AuthFrame(AUTH_SASL_FINAL, ServerFinal(this.scram)),
                                !.lastReady = IF f[1] = READY_FOR_QUERY
                                              THEN << Len(socket.written) >> ELSE @]]
                 : f \in ScramFrames(this.scram) }
          ELSE {}
     ELSE IF server.phase = "startup"
     THEN \* any startup-phase message, in any order
          (IF server.startupMsgs < MaxStartupMsgs
           THEN { [frame |-> f, server |-> [server EXCEPT !.startupMsgs = @ + 1]]
                  : f \in StartupFrames(this.scram) }
           ELSE {})
          \cup { [frame |-> f, server |-> server] : f \in AsyncFrames }
          \cup ready
     ELSE { [frame |-> f, server |-> server] : f \in AsyncFrames }
          \cup (IF server.stage = "done" THEN ready ELSE {})
          \cup (IF server.stage = "idle" /\ ~pending
                THEN { [frame |-> fatal, server |-> failed] }
                ELSE {})
          \cup (IF server.stage = "idle" /\ pending
                THEN { [frame |-> RowDescriptionFor(sql), server |-> to("rows")],
                       [frame |-> Frame(EMPTY_QUERY_RESPONSE, <<>>), server |-> to("done")] }
                ELSE {})
          \cup (IF server.stage \in { "idle", "rows" } /\ pending
                THEN { [frame |-> CommandCompleteFor(sql, server.rows), server |-> to("done")],
                       [frame |-> ErrorResponseFor(sql), server |-> to("done")] }
                ELSE {})
          \cup (IF server.stage = "rows" /\ server.rows < server.maxRows
                THEN { [frame |-> DataRowFor(sql, server.rows + 1),
                        server |-> [server EXCEPT !.rows = @ + 1]] }
                ELSE {})

\* ----------------------------------------------------------------- actions

\* The state after new PostgreSQLConnection(config).
ConstructorState ==
  /\ this = [ socket |-> FALSE, buffer |-> <<>>, processId |-> 0, secretKey |-> 0,
              state |-> "disconnected", readyForQuery |-> TRUE, currentQuery |-> 0,
              scram |-> ScramInit ]
  /\ socket = [ status |-> "none", endedAt |-> <<>>, written |-> <<>>,
                listeners |-> [ readyForQuery |-> <<>>, error |-> <<>>,
                                authenticationError |-> <<>>, close |-> <<>> ] ]
  /\ connectPromise = [status |-> "none", error |-> <<>>]
  /\ queries = <<>>
  /\ closePromises = <<>>
  /\ crashed = FALSE

\* The backend before it has sent anything. A backend of profile "scram"
\* keeps the last frame it sent, whether it has sent AuthenticationOk, and
\* whether it has sent the server-final message the client expects.
ServerInit(profile) ==
  [ profile |-> profile, phase |-> "startup", startupMsgs |-> 0, answered |-> 0,
    stage |-> IF profile = "trust" THEN "auth" ELSE "idle", rows |-> 0,
    lastReady |-> <<>>, last |-> <<>>, maxRows |-> MaxRows,
    okSent |-> FALSE, finalSent |-> FALSE ]

Init ==
  /\ ConstructorState
  /\ server = ServerInit("trust")
  /\ caller = [queries |-> MaxQueries, closes |-> MaxCloses, afterError |-> <<>>]
  /\ wire = <<>>
  /\ sent = <<>>
  /\ dispatched = <<>>

\* connect(): creates the socket and installs its listeners.
connect(w) ==
  [w EXCEPT !.this.socket = TRUE,
            !.socket.status = "connecting",
            !.socket.listeners = [ readyForQuery |-> << 0 >>, error |-> << 0 >>,
                                   authenticationError |-> << 0 >>, close |-> << 0 >> ],
            !.connectPromise.status = "pending"]

Connect ==
  /\ ~crashed
  /\ ~this.socket
  /\ Commit(connect(World))
  /\ UNCHANGED << server, caller, wire, sent, dispatched >>

\* The callback of net.createConnection, and _sendStartupMessage(). A write
\* made while the socket was connecting is still in progress when the callback
\* runs, and the stream sends what is written meanwhile after it: the startup
\* packet goes out behind the frames queued before the TCP connection.
socketOnConnect(w) ==
  SocketWrite([w EXCEPT !.this.state = "connected", !.socket.status = "open"],
              createStartupPacket)

TcpConnected ==
  /\ ~crashed
  /\ socket.status = "connecting"
  /\ Commit(socketOnConnect(World))
  /\ UNCHANGED << server, caller, wire, sent, dispatched >>

\* A 'data' event carrying the backend's next frame.
Data ==
  /\ ~crashed
  /\ socket.status = "open"
  /\ \E c \in ServerChoices, random \in RandomBytes :
       /\ Commit(socketOnData(World, c.frame, random))
       /\ server' = c.server
  /\ UNCHANGED << caller, wire, sent, dispatched >>

\* query(sql) without the readyForQuery test.
query_NoReadyTest(w, sql) ==
  LET q == Len(w.queries) + 1
      closure == [ sql |-> sql, promise |-> "pending", value |-> <<>>, results |-> <<>>,
                   fields |-> <<>>, commandCompleteMessage |-> <<>>, timeout |-> "armed",
                   since |-> Len(w.dispatched) ]
      w1 == [w EXCEPT !.this.readyForQuery = FALSE,
                      !.queries = Append(@, closure),
                      !.this.currentQuery = q]
  IN IF ~w1.this.socket
     THEN RejectQuery(w1, q, Error("TypeError", <<>>))
     ELSE [SocketWrite(w1, createSimpleQueryPacket(sql)) EXCEPT
             !.socket.listeners.readyForQuery = Append(@, q),
             !.socket.listeners.error = Append(@, q)]

\* query(sql): the q-th call, whose SQL text is the digit q.
query(w, sql) ==
  LET q == Len(w.queries) + 1
      closure == [ sql |-> sql, promise |-> "pending", value |-> <<>>, results |-> <<>>,
                   fields |-> <<>>, commandCompleteMessage |-> <<>>, timeout |-> "armed",
                   since |-> Len(w.dispatched) ]
  IN IF ~w.this.readyForQuery
     THEN [w EXCEPT !.queries = Append(@, [closure EXCEPT
                       !.promise = "rejected", !.timeout = "none",
                       !.value = << Error("Connection not ready for query", <<>>) >>])]
     ELSE LET w1 == [w EXCEPT !.this.readyForQuery = FALSE,
                              !.queries = Append(@, closure),
                              !.this.currentQuery = q]
          IN IF ~w1.this.socket
             THEN \* this.socket.write throws inside the promise executor
                  RejectQuery(w1, q, Error("TypeError", <<>>))
             ELSE [SocketWrite(w1, createSimpleQueryPacket(sql)) EXCEPT
                     !.socket.listeners.readyForQuery = Append(@, q),
                     !.socket.listeners.error = Append(@, q)]

\* What the caller knows when it calls query(): no query of its is outstanding,
\* and the backend answered one of them with an ErrorResponse and has sent the
\* ReadyForQuery that ends that answer.
AfterErrorCycle ==
  /\ \A q \in 1..Len(queries) : queries[q].promise # "pending"
  /\ \E q \in 1..Len(queries), k \in 1..server.answered :
       /\ queries[q].promise = "rejected"
       /\ queries[q].value[1] =
            Error("ErrorResponse",
                  parseNullTerminatedPairs(
                    SliceFrom(ErrorResponseFor(FrameSql(QueryFrames(socket.written)[k])), 5)))

Query ==
  /\ ~crashed
  /\ Len(queries) < caller.queries
  /\ Commit(query(World, << 48 + Len(queries) + 1 >>))
  /\ caller' = [caller EXCEPT !.afterError = Append(@, AfterErrorCycle)]
  /\ UNCHANGED << server, wire, sent, dispatched >>

\* The 30 s timer of closure q fires.
queryTimeout(w, q) ==
  LET w1 == [w EXCEPT !.queries[q].timeout = "fired"]
  IN IF w1.this.currentQuery # 0
     THEN currentQueryReject(w1, w1.this.currentQuery, Error("Query timeout", <<>>))
     ELSE w1

Timeout ==
  /\ ~crashed
  /\ \E q \in 1..Len(queries) :
       /\ queries[q].timeout = "armed"
       /\ Commit(queryTimeout(World, q))
  /\ UNCHANGED << server, caller, wire, sent, dispatched >>

\* close(): the c-th call.
close(w) ==
  LET c == Len(w.closePromises) + 1 IN
  IF w.this.socket /\ w.this.state # "disconnected"
  THEN [SocketWrite(w, createTerminationPacket) EXCEPT
          !.socket.endedAt = IF @ = <<>> THEN << Len(SocketWrite(w, createTerminationPacket).socket.written) >> ELSE @,
          !.socket.listeners.close = Append(@, c),
          !.closePromises = Append(@, "pending")]
  ELSE [w EXCEPT !.closePromises = Append(@, "resolved")]

Close ==
  /\ ~crashed
  /\ Len(closePromises) < caller.closes
  /\ Commit(close(World))
  /\ UNCHANGED << server, caller, wire, sent, dispatched >>

\* The transport fails: the socket emits 'error' and is destroyed.
TransportError ==
  /\ ~crashed
  /\ socket.status \in { "connecting", "open" }
  /\ Commit([EmitError(World, Error("socket error", <<>>)) EXCEPT
               !.socket.status = "destroyed"])
  /\ UNCHANGED << server, caller, wire, sent, dispatched >>

\* The 'end' listener; the peer closed its side, and the socket (allowHalfOpen
\* is off) closes too.
socketOnEnd(w) == [w EXCEPT !.this.state = "disconnected"]

TransportEnd ==
  /\ ~crashed
  /\ socket.status = "open"
  /\ Commit([socketOnEnd(World) EXCEPT !.socket.status = "destroyed"])
  /\ UNCHANGED << server, caller, wire, sent, dispatched >>

\* The 'close' listeners: connect()'s (listener 0), then close()'s.
RECURSIVE CallClose(_, _)
CallClose(w, ids) ==
  IF ids = <<>> THEN w
  ELSE LET w1 == [w EXCEPT !.this.state = "disconnected"]
           w2 == IF ids[1] = 0 THEN w1
                 ELSE [w1 EXCEPT !.socket.listeners.close = Without(@, ids[1]),
                                 !.closePromises[ids[1]] = "resolved"]
       IN CallClose(w2, Tail(ids))

TransportClose ==
  /\ ~crashed
  /\ socket.status = "destroyed"
  /\ Commit(CallClose([World EXCEPT !.socket.status = "closed"], socket.listeners.close))
  /\ UNCHANGED << server, caller, wire, sent, dispatched >>

Next ==
  \/ Connect
  \/ TcpConnected
  \/ Data
  \/ Query
  \/ Timeout
  \/ Close
  \/ TransportError
  \/ TransportEnd
  \/ TransportClose

Spec == Init /\ [][Next]_vars

\* ------------------------------------------- a longer session of queries
\* The same client and backend on a transport that stays up: the caller issues
\* up to MaxSessionQueries queries and never closes.

InitQueries ==
  /\ ConstructorState
  /\ server = ServerInit("trust")
  /\ caller = [queries |-> MaxSessionQueries, closes |-> 0, afterError |-> <<>>]
  /\ wire = <<>>
  /\ sent = <<>>
  /\ dispatched = <<>>

NextQueries ==
  \/ Connect
  \/ TcpConnected
  \/ Data
  \/ Query
  \/ Timeout

SpecQueries == InitQueries /\ [][NextQueries]_vars

\* ------------------------------------------------------ closing, repeatedly
\* The trust backend and a caller that calls close() up to MaxCloseCalls times,
\* at any moment, on a transport that may fail, end and close.

InitClose ==
  /\ ConstructorState
  /\ server = ServerInit("trust")
  /\ caller = [queries |-> MaxCloseQueries, closes |-> MaxCloseCalls, afterError |-> <<>>]
  /\ wire = <<>>
  /\ sent = <<>>
  /\ dispatched = <<>>

NextClose ==
  \/ Connect
  \/ TcpConnected
  \/ Data
  \/ Query
  \/ Close
  \/ TransportError
  \/ TransportEnd
  \/ TransportClose

SpecClose == InitClose /\ [][NextClose]_vars

\* --------------------------------------------------- the SCRAM exchange
\* A backend that sends the messages of a SCRAM exchange, well-formed or not,
\* in any order, to a caller that only connects.

InitScram ==
  /\ ConstructorState
  /\ server = ServerInit("scram")
  /\ caller = [queries |-> 0, closes |-> 0, afterError |-> <<>>]
  /\ wire = <<>>
  /\ sent = <<>>
  /\ dispatched = <<>>

NextScram ==
  \/ Connect
  \/ TcpConnected
  \/ Data

SpecScram == InitScram /\ [][NextScram]_vars

\* ------------------------------------------------- the framer on its own
\* The transport delivers a stream of well-formed frames in chunks of any
\* size. The frames are notices and parameter updates, which the dispatcher
\* hands to handlers that change nothing, so `dispatched` is the whole effect.

FramerMessages ==
  [ type : { NOTICE_RESPONSE, PARAMETER_STATUS }, body : { <<>>, << 0 >>, << 77, 0 >> } ]

RECURSIVE Streams(_)
Streams(n) ==
  IF n = 0 THEN { <<>> }
  ELSE Streams(n - 1) \cup { Append(st, m) : st \in Streams(n - 1), m \in FramerMessages }

\* The byte stream of a sequence of messages.
RECURSIVE Encode(_)
Encode(msgs) ==
  IF msgs = <<>> THEN <<>> ELSE Frame(msgs[1].type, msgs[1].body) \o Encode(Tail(msgs))

InitFramer ==
  /\ ConstructorState
  /\ server = ServerInit("trust")
  /\ caller = [queries |-> 0, closes |-> 0, afterError |-> <<>>]
  /\ sent \in Streams(MaxFrames)
  /\ wire = Encode(sent)
  /\ dispatched = <<>>

\* A 'data' event carrying the next n bytes of the stream.
DataChunk ==
  /\ ~crashed
  /\ socket.status = "open"
  /\ \E n \in 1..Len(wire) :
       /\ \E w \in { socketOnData(World, SubSeq(wire, 1, n), << 1, 2, 3 >>) } :
            /\ Commit(w)
            /\ dispatched' = w.dispatched
       /\ wire' = SubSeq(wire, n + 1, Len(wire))
  /\ UNCHANGED << server, caller, sent >>

NextFramer ==
  \/ Connect
  \/ TcpConnected
  \/ DataChunk

SpecFramer == InitFramer /\ [][NextFramer]_vars

\* --------------------------------------- the framer on an arbitrary stream
\* The transport delivers, in chunks of any size, a stream of up to
\* MaxResyncBytes bytes that need not be frames: 0, 4 and 255 make lengths
\* below 4, the least length and negative and huge lengths; 78 is a type byte.
\* `sent` keeps the whole stream as one record: its first byte and the rest.

ResyncBytes == { 0, 4, 78, 255 }

RECURSIVE ByteStreams(_)
ByteStreams(n) ==
  IF n = 0 THEN { <<>> }
  ELSE ByteStreams(n - 1)
       \cup { Append(st, b) : st \in { x \in ByteStreams(n - 1) : Len(x) = n - 1 },
                              b \in ResyncBytes }

InitResync ==
  /\ ConstructorState
  /\ server = ServerInit("trust")
  /\ caller = [queries |-> 0, closes |-> 0, afterError |-> <<>>]
  /\ wire \in ByteStreams(MaxResyncBytes)
  /\ sent = IF wire = <<>> THEN <<>> ELSE << [type |-> wire[1], body |-> Tail(wire)] >>
  /\ dispatched = <<>>

NextResync ==
  \/ Connect
  \/ TcpConnected
  \/ DataChunk

SpecResync == InitResync /\ [][NextResync]_vars

\* ------------------------------------------- parseSCRAMParams on its own
\* Every string of up to MaxParamsLen characters over ',', '=', 'a' and 'r'
\* is parsed once. `wire` holds the string and `sent` the mapping returned,
\* as << pairs >>, once parseSCRAMParams has run.

ParamsChars == { 44, 61, 97, 114 }

RECURSIVE ParamsStrings(_)
ParamsStrings(n) ==
  IF n = 0 THEN { <<>> }
  ELSE ParamsStrings(n - 1)
       \cup { Append(st, c) : st \in { x \in ParamsStrings(n - 1) : Len(x) = n - 1 },
                              c \in ParamsChars }

InitParams ==
  /\ ConstructorState
  /\ server = ServerInit("trust")
  /\ caller = [queries |-> 0, closes |-> 0, afterError |-> <<>>]
  /\ wire \in ParamsStrings(MaxParamsLen)
  /\ sent = <<>>
  /\ dispatched = <<>>

ParseParams ==
  /\ sent = <<>>
  /\ sent' = << parseSCRAMParams(wire) >>
  /\ UNCHANGED << this, socket, connectPromise, queries, closePromises, server, caller,
                  wire, dispatched, crashed >>

NextParams == ParseParams

SpecParams == InitParams /\ [][NextParams]_vars

\* frames[1] \o frames[2] \o ...
RECURSIVE Concat(_)
Concat(frames) == IF frames = <<>> THEN <<>> ELSE frames[1] \o Concat(Tail(frames))

\* ------------------------------------------------ the startup phase at large
\* ------------------------------------------- query responses, in chunks
\* The trust backend's frames travel over a transport that delivers them in
\* chunks of any size; sent keeps every frame the backend has sent.

InitResponse ==
  /\ ConstructorState
  /\ server = [ServerInit("trust") EXCEPT !.maxRows = MaxResponseRows]
  /\ caller = [queries |-> MaxResponseQueries, closes |-> 0, afterError |-> <<>>]
  /\ wire = <<>>
  /\ sent = <<>>
  /\ dispatched = <<>>

\* The notices and parameter updates among the frames sent.
AsyncSent == SelectSeq(sent, LAMBDA m : Frame(m.type, m.body) \in AsyncFrames)

\* The backend puts its next frame on the transport.
ServerSend ==
  /\ ~crashed
  /\ socket.status = "open"
  /\ Len(wire) <= MaxWire
  /\ \E c \in ServerChoices :
       /\ c.frame \in AsyncFrames => Len(AsyncSent) < MaxNotices
       /\ wire' = wire \o c.frame
       /\ sent' = Append(sent, [type |-> c.frame[1], body |-> SliceFrom(c.frame, 5)])
       /\ server' = c.server
  /\ UNCHANGED << this, socket, connectPromise, queries, closePromises, caller,
                  dispatched, crashed >>

NextResponse ==
  \/ Connect
  \/ TcpConnected
  \/ Query
  \/ ServerSend
  \/ DataChunk

SpecResponse == InitResponse /\ [][NextResponse]_vars

\* A backend that may send any startup-phase message in any order, to a caller
\* that connects and makes at most MaxAuthQueries query() calls.

InitAuth ==
  /\ ConstructorState
  /\ server = ServerInit("any")
  /\ caller = [queries |-> MaxAuthQueries, closes |-> 0, afterError |-> <<>>]
  /\ wire = <<>>
  /\ sent = <<>>
  /\ dispatched = <<>>

NextAuth ==
  \/ Connect
  \/ TcpConnected
  \/ Data
  \/ Query
  \/ Timeout
  \/ TransportError
  \/ TransportEnd
  \/ TransportClose

SpecAuth == InitAuth /\ [][NextAuth]_vars

\* ------------------------------------------------------------------ claims

\* C1: for every stream of well-formed messages and every way of cutting it
\* into chunks, the messages handed to _processMessage are, in stream order,
\* exactly the messages sent so far that have fully arrived, each with its own
\* type and body; once the whole stream has arrived they are all of them, the
\* accumulator is empty, and the outcome is that of a single chunk.
C1_FramerDispatchesEveryMessageInOrder ==
  /\ Len(dispatched) <= Len(sent)
  /\ \A i \in 1..Len(dispatched) :
       /\ dispatched[i][1] = sent[i].type
       /\ SliceFrom(dispatched[i], 5) = sent[i].body
  /\ Encode(SubSeq(sent, 1, Len(dispatched))) \o this.buffer \o wire = Encode(sent)
  /\ (wire = <<>> /\ socket.status = "open") =>
       /\ Len(dispatched) = Len(sent)
       /\ this.buffer = <<>>
       /\ dispatched = socketOnData([World EXCEPT !.this.buffer = <<>>, !.dispatched = <<>>],
                                    Encode(sent), << 1, 2, 3 >>).dispatched

\* A chunk boundary fell inside the last frame after two frames were handed over.
C1_Witness ==
  /\ Len(dispatched) = 2
  /\ Len(sent) = 3
  /\ this.buffer # <<>>
  /\ wire # <<>>

\* C2: a 'data' event hands over only whole frames, each cut from the head of
\* the accumulator when the accumulator held its 1 + declared-length bytes, and
\* while the head frame is incomplete it hands over nothing and leaves the
\* accumulator as it was apart from the appended input.
C2_DispatchOnlyWhenFullyBuffered ==
  [][ wire' # wire =>
        LET accumulated == this.buffer \o SubSeq(wire, 1, Len(wire) - Len(wire'))
            new == SubSeq(dispatched', Len(dispatched) + 1, Len(dispatched'))
        IN /\ \A i \in 1..Len(new) :
                /\ Len(new[i]) >= 5
                /\ Len(new[i]) = 1 + ReadInt32BE(new[i], 1)
           /\ Concat(new) \o this'.buffer = accumulated
           /\ (Len(accumulated) >= 5 /\ 1 + ReadInt32BE(accumulated, 1) > Len(accumulated))
                => (new = <<>> /\ this'.buffer = accumulated)
    ]_vars

\* The accumulator holds a whole header whose frame has not fully arrived.
C2_Witness ==
  /\ Len(this.buffer) >= 5
  /\ 1 + ReadInt32BE(this.buffer, 1) > Len(this.buffer)
  /\ Len(dispatched) >= 1

\* The call just made was the n-th query().
QueryCalled == Len(queries') = Len(queries) + 1

NotReadyError == Error("Connection not ready for query", <<>>)

TimeoutError == Error("Query timeout", <<>>)

\* C3: a query() call made while an earlier query's promise is unsettled is
\* rejected with the not-ready error, writes nothing, and changes neither the
\* connection, nor the listeners, nor any earlier closure.
C3_QueryWhileOutstandingIsRefused ==
  [][ (QueryCalled /\ \E q \in 1..Len(queries) : queries[q].promise = "pending") =>
        /\ queries'[Len(queries')].promise = "rejected"
        /\ queries'[Len(queries')].value = << NotReadyError >>
        /\ SubSeq(queries', 1, Len(queries)) = queries
        /\ socket' = socket
        /\ this' = this
    ]_vars

\* The second call was refused while the first, whose frame went out, is pending.
C3_Witness ==
  /\ Len(queries) = 2
  /\ queries[1].promise = "pending"
  /\ Len(QueryFrames(socket.written)) = 1
  /\ queries[2].promise = "rejected"
  /\ queries[2].value = << NotReadyError >>

\* C4: the Query frames written outnumber the Query frames whose terminating
\* ReadyForQuery has been received by at most one.
C4_AtMostOneQueryOutstanding ==
  Len(QueryFrames(socket.written)) - server.answered <= 1

\* The rows, fields and tag of the backend's possible answers to sql.
AnswersTo(sql) ==
  LET tag(n) == << SliceFrom(CommandCompleteFor(sql, n), 5) >>
      fields == << parseRowDescription(SliceFrom(RowDescriptionFor(sql), 5)) >>
      rows(n) == [k \in 1..n |-> parseDataRow(SliceFrom(DataRowFor(sql, k), 5), fields[1])]
      closures ==
        { [results |-> <<>>, fields |-> <<>>, commandCompleteMessage |-> tag(0)],
          [results |-> <<>>, fields |-> <<>>,
           commandCompleteMessage |-> << STR_EMPTY \o << 0 >> >>] }
        \cup { [results |-> rows(n), fields |-> fields, commandCompleteMessage |-> tag(n)]
               : n \in 0..MaxRows }
  IN { QueryResult(c, << 73 >>) : c \in closures }

\* C5: a query() called when an earlier query was rejected by an ErrorResponse
\* whose ReadyForQuery has arrived, and none is outstanding, is not refused as
\* not ready, and when it resolves it resolves with the rows, fields and command
\* tag of the backend's answer to its own SQL text.
C5_QueryAfterErrorCycleGetsItsOwnAnswer ==
  \A r \in 1..Len(queries) :
    caller.afterError[r] =>
      /\ queries[r].value # << NotReadyError >>
      /\ queries[r].promise = "resolved" => queries[r].value[1] \in AnswersTo(queries[r].sql)

\* C6: once a query of a connected client has been rejected by its timeout,
\* every later query() call is rejected and writes no Query frame.
C6_QueryAfterTimeoutIsRejected ==
  [][ ( /\ QueryCalled
        /\ connectPromise.status = "resolved"
        /\ \E q \in 1..Len(queries) :
             queries[q].promise = "rejected" /\ queries[q].value = << TimeoutError >> ) =>
        /\ queries'[Len(queries')].promise = "rejected"
        /\ QueryFrames(socket'.written) = QueryFrames(socket.written)
    ]_vars

\* C7: when readyForQuery is true on a connection whose connect() has resolved,
\* a ReadyForQuery has been received and no Query frame was written after the
\* last one.
C7_ReadyMeansReadyForQueryReceived ==
  (this.readyForQuery /\ connectPromise.status = "resolved") =>
    /\ server.lastReady # <<>>
    /\ QueryFrames(SubSeq(socket.written, server.lastReady[1] + 1, Len(socket.written)))
         = <<>>

\* C8: a query() called on an open transport before connect() has resolved is
\* rejected and writes no Query frame.
C8_QueryBeforeConnectedIsRejected ==
  [][ ( /\ QueryCalled
        /\ socket.status = "open"
        /\ connectPromise.status = "pending"
        /\ server.lastReady = <<>> ) =>
        /\ queries'[Len(queries')].promise = "rejected"
        /\ QueryFrames(socket'.written) = QueryFrames(socket.written)
    ]_vars

\* C9: the promise of connect() is resolved only by the step that receives the
\* first ReadyForQuery, is resolved by that step when it is still pending, and
\* once settled never changes.
C9_ConnectResolvesAtFirstReadyForQuery ==
  [][ /\ connectPromise.status \in { "resolved", "rejected" } =>
           connectPromise' = connectPromise
      /\ (connectPromise.status = "pending" /\ connectPromise'.status = "resolved") =>
           (server.lastReady = <<>> /\ server'.lastReady # <<>>)
      /\ (connectPromise.status = "pending" /\ server.lastReady = <<>>
          /\ server'.lastReady # <<>>) =>
           connectPromise'.status = "resolved"
    ]_vars

\* connect() has resolved after two startup messages, one of them BackendKeyData.
C9_Witness ==
  /\ connectPromise.status = "resolved"
  /\ this.processId = 1
  /\ server.startupMsgs = 2
  /\ server.lastReady # <<>>

\* The messages of the errors the authentication handlers signal.
AuthenticationErrors ==
  { "Unsupported authentication type", "No supported SASL mechanism",
    "Server nonce does not start with client nonce",
    "Server first message missing salt or iteration count",
    "SCRAM authentication failed", "Server final message missing signature (v)",
    "Server signature verification failed" }

\* C10: once connect() has been rejected with an authentication error the
\* connection is no longer connected, its socket is no longer open, and a
\* query() call is rejected and writes no Query frame, whatever has arrived
\* since.
C10_AuthenticationErrorIsFatal ==
  [][ ( /\ connectPromise.status = "rejected"
        /\ connectPromise.error[1].message \in AuthenticationErrors ) =>
        /\ this.state # "connected"
        /\ socket.status \notin { "connecting", "open" }
        /\ QueryCalled =>
             /\ queries'[Len(queries')].promise = "rejected"
             /\ QueryFrames(socket'.written) = QueryFrames(socket.written)
    ]_vars

\* The Authentication message of the given subtype the backend has just sent,
\* in a step of the SCRAM exchange: << body >>, or << >> when the step sent
\* something else.
JustSent(subtype) ==
  IF /\ server'.startupMsgs = server.startupMsgs + 1
     /\ server'.last[1] = AUTHENTICATION
     /\ ReadInt32BE(server'.last, 5) = subtype
  THEN << SliceFrom(server'.last, 9) >>
  ELSE <<>>

\* The value of attribute key in a SCRAM message: what follows the first '='
\* of the last comma-separated token named key; <<>> when there is none.
ScramAttribute(str, key) ==
  LET tokens == Split(str, 44)
      named == { k \in 1..Len(tokens) :
                   Len(tokens[k]) >= 2 /\ tokens[k][1] = key /\ tokens[k][2] = 61 }
  IN IF named = {} THEN <<>>
     ELSE << SliceFrom(tokens[CHOOSE k \in named : \A j \in named : j <= k], 2) >>

\* A server-first message that must be refused by a client whose nonce is
\* clientNonce (<<>> when the client has drawn none).
BadServerFirst(str, clientNonce) ==
  \/ ScramAttribute(str, 114) = <<>>
  \/ clientNonce = <<>>
  \/ ~StartsWith(ScramAttribute(str, 114)[1], clientNonce[1])
  \/ ScramAttribute(str, 115) = <<>>
  \/ ScramAttribute(str, 105) = <<>>

\* C11: a SASL-continue message whose server-first lacks r, s or i, or whose r
\* does not begin with the client nonce, received while connect() is pending,
\* rejects connect() with an authentication error and writes nothing.
C11_BadServerFirstIsRefused ==
  [][ ( /\ JustSent(AUTH_SASL_CONTINUE) # <<>>
        /\ BadServerFirst(JustSent(AUTH_SASL_CONTINUE)[1], this.scram.clientNonce)
        /\ connectPromise.status = "pending" ) =>
        /\ connectPromise'.status = "rejected"
        /\ connectPromise'.error[1].message \in AuthenticationErrors
        /\ socket'.written = socket.written
    ]_vars

\* A server-final message that proves the server to a client in SCRAM state
\* scram: no error, and a v that decodes to the signature the client expects.
GoodServerFinal(str, scram) ==
  /\ ~StartsWith(str, << 101, 61 >>)
  /\ ScramAttribute(str, 118) # <<>>
  /\ scram.saltedPassword # <<>>
  /\ scram.authMessage # <<>>
  /\ Base64Decode(ScramAttribute(str, 118)[1]) = ExpectedServerSignature(scram)

\* C12: a SASL-final message received while connect() is pending leaves
\* connect() pending when it carries the expected server signature and no
\* error, and in every other case rejects connect() with an authentication
\* error; either way the handler returns.
C12_ServerFinalIsVerified ==
  [][ (JustSent(AUTH_SASL_FINAL) # <<>> /\ connectPromise.status = "pending") =>
        /\ ~crashed'
        /\ IF GoodServerFinal(JustSent(AUTH_SASL_FINAL)[1], this.scram)
           THEN connectPromise' = connectPromise
           ELSE /\ connectPromise'.status = "rejected"
                /\ connectPromise'.error[1].message \in AuthenticationErrors
    ]_vars

\* The messages a 'data' step has handed to _processMessage.
NewlyDispatched == SubSeq(dispatched', Len(dispatched) + 1, Len(dispatched'))

IsAsync(frame) == frame[1] \in { NOTICE_RESPONSE, PARAMETER_STATUS }

\* C13: a 'data' step that hands over notices or parameter updates, alone or
\* among other messages, leaves the connection, the closures and promises
\* of every query, connect()'s promise and the socket exactly as the same step
\* without those messages leaves them.
C13_NoticesChangeNothing ==
  [][ (\E k \in 1..Len(NewlyDispatched) : IsAsync(NewlyDispatched[k])) =>
        LET kept == SelectSeq(NewlyDispatched, LAMBDA f : ~IsAsync(f))
            without == socketOnData([World EXCEPT !.this.buffer = <<>>], Concat(kept),
                                    << 1, 2, 3 >>)
        IN /\ [this' EXCEPT !.buffer = <<>>] = without.this
           /\ queries' = without.queries
           /\ connectPromise' = without.connectPromise
           /\ socket' = without.socket
           /\ crashed' = without.crashed
    ]_vars

\* A notice arrived between the RowDescription and the end of a query that
\* resolved with two rows.
C13_Witness ==
  /\ Len(queries) = 1
  /\ queries[1].promise = "resolved"
  /\ Len(queries[1].value[1].rows) = 2
  /\ \E i, j, k \in 1..Len(dispatched) :
       /\ i < j /\ j < k
       /\ dispatched[i][1] = ROW_DESCRIPTION
       /\ dispatched[j][1] = NOTICE_RESPONSE
       /\ dispatched[k][1] = READY_FOR_QUERY

\* The backend's answer to the first Query frame it read: the frames it sent
\* after its first ReadyForQuery up to its second, notices and parameter
\* updates left out.
ReadyIndexes == { i \in 1..Len(sent) : sent[i].type = READY_FOR_QUERY }

FirstAnswer ==
  IF Cardinality(ReadyIndexes) < 2 THEN <<>>
  ELSE LET first == CHOOSE i \in ReadyIndexes : \A j \in ReadyIndexes : i <= j
           second == CHOOSE i \in ReadyIndexes \ { first } :
                       \A j \in ReadyIndexes \ { first } : i <= j
       IN SelectSeq(SubSeq(sent, first + 1, second),
                    LAMBDA m : m.type \notin { NOTICE_RESPONSE, PARAMETER_STATUS })

\* The answer is one RowDescription, DataRows, one CommandComplete and the
\* ReadyForQuery.
IsRowsAnswer(answer) ==
  /\ Len(answer) >= 3
  /\ answer[1].type = ROW_DESCRIPTION
  /\ \A i \in 2..(Len(answer) - 2) : answer[i].type = DATA_ROW
  /\ answer[Len(answer) - 1].type = COMMAND_COMPLETE
  /\ answer[Len(answer)].type = READY_FOR_QUERY

\* Everything the backend sent has been handed to _processMessage.
AllDelivered == wire = <<>> /\ this.buffer = <<>>

\* C14: when the backend has answered a query's frame with one RowDescription,
\* k DataRows, one CommandComplete and ReadyForQuery, and all of it has
\* arrived, in whatever chunks, the query is resolved with k rows, the i-th
\* being the decoding of the i-th DataRow.
C14_RowsInServerOrder ==
  \A q \in 1..Len(queries) :
    ( /\ AllDelivered
      /\ IsRowsAnswer(FirstAnswer)
      /\ QueryFrames(socket.written) # <<>>
      /\ queries[q].sql = FrameSql(QueryFrames(socket.written)[1])
      /\ queries[q].timeout # "none" ) =>
      /\ queries[q].promise = "resolved"
      /\ queries[q].value[1].rows =
           [ i \in 1..(Len(FirstAnswer) - 3) |->
               parseDataRow(FirstAnswer[i + 1].body, parseRowDescription(FirstAnswer[1].body)) ]

\* C15: on a connected client, the step in which an ErrorResponse rejects the
\* query in flight gives the error the parsed fields and leaves readyForQuery
\* false, and a query() called before the ReadyForQuery that ends the failed
\* answer is refused and writes nothing.
C15_ErrorDisablesUntilReadyForQuery ==
  [][ connectPromise.status = "resolved" =>
        /\ \A q \in 1..Len(queries) :
             ( /\ queries[q].promise = "pending"
               /\ queries'[q].promise = "rejected"
               /\ queries'[q].value[1].message = "ErrorResponse" ) =>
               /\ queries'[q].value[1].fields # <<>>
               /\ ~this'.readyForQuery
        /\ (QueryCalled /\ server.phase = "serving" /\ server.stage = "done") =>
             /\ queries'[Len(queries')].promise = "rejected"
             /\ QueryFrames(socket'.written) = QueryFrames(socket.written)
    ]_vars

\* C16: after an ErrorResponse has arrived on a connected client with no query
\* in flight, the next query() call fails with that error and writes no Query
\* frame.
C16_IdleErrorFailsNextOperation ==
  [][ ( /\ QueryCalled
        /\ connectPromise.status = "resolved"
        /\ server.phase = "failed"
        /\ \A q \in 1..Len(queries) : queries[q].promise # "pending" ) =>
        /\ queries'[Len(queries')].promise = "rejected"
        /\ queries'[Len(queries')].value[1].message = "ErrorResponse"
        /\ QueryFrames(socket'.written) = QueryFrames(socket.written)
    ]_vars

TerminateFrames == SelectSeq(socket.written, IsTerminateFrame)

C18_CloseResolvesWhenTransportClosed ==
  (\E c \in 1..Len(closePromises) : closePromises[c] = "resolved") =>
    socket.status \in { "none", "closed" }

IsCommandComplete(message) == message[1] = COMMAND_COMPLETE

IsEmptyQueryResponse(message) == message[1] = EMPTY_QUERY_RESPONSE

\* The messages dispatched since the q-th query() call, up to and including
\* the first ReadyForQuery.
ReceivedBy(q) ==
  LET after == SubSeq(dispatched, queries[q].since + 1, Len(dispatched))
      ends == { i \in 1..Len(after) : after[i][1] = READY_FOR_QUERY }
  IN IF ends = {} THEN <<>>
     ELSE SubSeq(after, 1, CHOOSE i \in ends : \A j \in ends : i <= j)

\* C19: a resolved query's command, rowCount and oid are those parsed from the
\* CommandComplete tag it received; with an EmptyQueryResponse, or with no tag
\* and status 'I', the result is command "EMPTY", rowCount 0, no rows; with no
\* tag and another status it is command "UNKNOWN", rowCount 0.
C19_CommandDeterminedAtReadyForQuery ==
  \A q \in 1..Len(queries) :
    queries[q].promise = "resolved" =>
      LET received == ReceivedBy(q)
          tags == SelectSeq(received, IsCommandComplete)
          empties == SelectSeq(received, IsEmptyQueryResponse)
          result == queries[q].value[1]
      IN /\ received # <<>>
         /\ IF tags # <<>>
            THEN LET parsed == parseCommandComplete(SliceFrom(tags[Len(tags)], 5))
                 IN /\ result.command = parsed.command
                    /\ result.rowCount = parsed.rowCount
                    /\ result.oid = parsed.oid
            ELSE IF empties # <<>> \/ SliceFrom(received[Len(received)], 5) = << 73 >>
            THEN /\ result.command = STR_EMPTY
                 /\ result.rowCount = Num(0)
                 /\ result.rows = <<>>
            ELSE /\ result.command = STR_UNKNOWN
                 /\ result.rowCount = Num(0)

\* A query was resolved from the CommandComplete that followed its two rows.
C19_Witness ==
  /\ Len(queries) = 1
  /\ queries[1].promise = "resolved"
  /\ SelectSeq(ReceivedBy(1), IsCommandComplete) # <<>>
  /\ queries[1].value[1].command = STR_INSERT
  /\ queries[1].value[1].rowCount = Num(2)
  /\ Len(queries[1].value[1].rows) = 2

\* A server-first message has been parsed successfully.
ServerFirstParsed ==
  /\ this.scram.serverNonce # <<>>
  /\ this.scram.salt # <<>>
  /\ this.scram.iterations # Num(0)

\* C20: once a server-first message has been parsed successfully, salt,
\* iterations and serverNonce are set and keep their values in every later
\* state, whatever Authentication messages follow.
C20_ScramParametersSetOnce ==
  [][ServerFirstParsed =>
        /\ this'.scram.serverNonce = this.scram.serverNonce
        /\ this'.scram.salt = this.scram.salt
        /\ this'.scram.iterations = this.scram.iterations]_vars

\* C21: whenever serverNonce is set, clientNonce is set and serverNonce begins
\* with the current clientNonce, for every order and repetition of SASL and
\* SASL-continue messages.
C21_ServerNonceExtendsClientNonce ==
  this.scram.serverNonce # <<>> =>
    /\ this.scram.clientNonce # <<>>
    /\ StartsWith(this.scram.serverNonce[1], this.scram.clientNonce[1])

\* C22: a 'data' event whose accumulated bytes begin with a header of length
\* below 4 has the outcome of the same bytes without the first one (one byte
\* is dropped, nothing is handed over for it, framing goes on); every 'data'
\* event ends, without an exception, with fewer than 5 bytes accumulated or
\* with an incomplete frame at the head.
C22_ShortLengthDropsOneByte ==
  [][ wire' # wire =>
        LET accumulated == this.buffer \o SubSeq(wire, 1, Len(wire) - Len(wire'))
            rest == socketOnData([World EXCEPT !.this.buffer = <<>>, !.dispatched = <<>>],
                                 Tail(accumulated), << 1, 2, 3 >>)
        IN /\ ~crashed'
           /\ (Len(accumulated) >= 5 /\ ReadInt32BE(accumulated, 1) < 4) =>
                /\ NewlyDispatched = rest.dispatched
                /\ this'.buffer = rest.this.buffer
                /\ Len(Concat(NewlyDispatched)) + Len(this'.buffer) < Len(accumulated)
           /\ \/ Len(this'.buffer) < 5
              \/ /\ ReadInt32BE(this'.buffer, 1) >= 4
                 /\ Len(this'.buffer) < 1 + ReadInt32BE(this'.buffer, 1)
    ]_vars

\* One byte was dropped before a header of length below 4 and the frame that
\* followed it was handed over.
C22_Witness ==
  /\ Len(sent) = 1
  /\ Len(sent[1].body) = 5
  /\ ReadInt32BE(<< sent[1].type >> \o sent[1].body, 1) < 4
  /\ dispatched = << sent[1].body >>
  /\ wire = <<>>
  /\ this.buffer = <<>>

\* The subtype of the Authentication message the backend has just sent:
\* << subtype >>, or << >> when the step sent something else.
JustSentSubtype ==
  IF server'.startupMsgs = server.startupMsgs + 1 /\ server'.last[1] = AUTHENTICATION
  THEN << ReadInt32BE(server'.last, 5) >>
  ELSE <<>>

\* The mechanism names an AuthenticationSASL body offers: the strings between
\* its zero bytes, up to the empty one that ends the list.
RECURSIVE NamesUntilEmpty(_)
NamesUntilEmpty(names) ==
  IF names = <<>> \/ names[1] = <<>> THEN <<>>
  ELSE << names[1] >> \o NamesUntilEmpty(Tail(names))

OfferedMechanisms(body) == NamesUntilEmpty(Split(body, 0))

IsSASLInitialResponse(frame) ==
  /\ IsPasswordFrame(frame)
  /\ StartsWith(SliceFrom(frame, 5), STR_SCRAM_SHA_256 \o << 0 >>)

FirstEquals(token) ==
  LET eqs == { i \in 1..Len(token) : token[i] = 61 }
  IN IF eqs = {} THEN 0 ELSE CHOOSE i \in eqs : \A j \in eqs : i <= j

\* The value a mapping built pair by pair holds for key: that of the last
\* pair with the key, <<>> when there is none.
LastValue(pairs, key) ==
  LET idx == { i \in 1..Len(pairs) : pairs[i][1] = key }
  IN IF idx = {} THEN <<>>
     ELSE << pairs[CHOOSE i \in idx : \A j \in idx : j <= i][2] >>

\* C24: parseSCRAMParams maps the key of every comma-separated token k=v (the
\* last one for each key) to all that follows the token's first '=', also
\* when that value contains '='.
C24_ValueIsAllAfterFirstEquals ==
  sent # <<>> =>
    LET tokens == Split(wire, 44)
        key(k) == SubSeq(tokens[k], 1, FirstEquals(tokens[k]) - 1)
    IN \A k \in 1..Len(tokens) :
         ( /\ FirstEquals(tokens[k]) > 1
           /\ \A j \in (k + 1)..Len(tokens) :
                FirstEquals(tokens[j]) > 1 => key(j) # key(k) ) =>
           LastValue(sent[1], key(k)) = << SliceFrom(tokens[k], FirstEquals(tokens[k])) >>

\* C25: there is never more than one Startup frame, and on an established
\* TCP connection the Startup frame is the first frame the transport carries:
\* no Query, Password or Terminate frame precedes it, however the caller's
\* query() and close() calls interleave with transport events.
C25_StartupFrameIsFirst ==
  /\ Len(SelectSeq(socket.written, IsStartupFrame)) <= 1
  /\ socket.status = "open" =>
       /\ socket.written # <<>>
       /\ IsStartupFrame(socket.written[1])

\* C26: on a connected client, the step that resolves a query receives the
\* ReadyForQuery that ends the backend's answer to that query's own Query
\* frame, and the result is built from that answer; the ReadyForQuery of an
\* earlier query, rejected by ErrorResponse or by timeout, resolves no later
\* query.
C26_ResolvedByOwnReadyForQuery ==
  [][ connectPromise.status = "resolved" =>
        \A q \in 1..Len(queries) :
          (queries[q].promise = "pending" /\ queries'[q].promise = "resolved") =>
            /\ server.stage = "done"
            /\ server'.answered = server.answered + 1
            /\ FrameSql(QueryFrames(socket.written)[server'.answered]) = queries[q].sql
            /\ queries'[q].value[1] \in AnswersTo(queries[q].sql)
    ]_vars

\* C27: the step that resolves connect() comes after an AuthenticationOk and,
\* when the client has started a SCRAM exchange, after a server-final message
\* carrying the signature the client expects.
C27_ConnectNeedsAuthentication ==
  [][ (connectPromise.status = "pending" /\ connectPromise'.status = "resolved") =>
        /\ server.okSent
        /\ this.scram.clientNonce # <<>> => server.finalSent
    ]_vars

====
